---- MODULE Spec2Model ----
(***************************************************************************)
(* The bbolt event store of lunjon/eventsourcing: Save, Get and GlobalGet   *)
(* over one bbolt database, with the read-write transaction of Save, the    *)
(* read-only snapshots of Get and GlobalGet, and the batch validation.      *)
(***************************************************************************)
EXTENDS Integers, Sequences, FiniteSets, TLC

VARIABLES
    db,         \* the committed buckets of the bbolt file: name -> [sequence, kv]
    writer,     \* the caller holding bbolt's single read-write transaction, or NoWriter
    pc,         \* per caller: "idle", "write", "commit", "get", "globalget", "done"
    call,       \* per caller: the call it is in
    tx,         \* per caller: the buckets its open transaction sees
    result,     \* per caller: what the call returned, once it is "done"
    committed   \* the events of the successful Save calls, in commit order

vars == <<db, writer, pc, call, tx, result, committed>>

-----------------------------------------------------------------------------
(* Bounds of the model *)

\* longest batch a caller hands to Save
MaxBatch == 2
\* most events the successful Save calls write in total
MaxEvents == 3

-----------------------------------------------------------------------------
(* Names and inputs *)

globalEventOrderBucketName == "global_event_order"

Procs == {1, 2}
NoWriter == 0

\* the one caller of the sequential specification
Callers == {1}

\* Aggregate types and ids the callers use. ("a_b", "c") and ("a", "b_c") are
\* two aggregates, and ("global", "event_order") is a third one.
Aggregates ==
    {<<"a", "c">>, <<"a", "b_c">>, <<"a_b", "c">>, <<"global", "event_order">>}

Versions == 1..(MaxEvents + 1)

Event(t, id, v, r) ==
    [aggregateType |-> t, aggregateRootID |-> id, version |-> v, reason |-> r]

\* a well-formed batch: n events of one aggregate, versions first..first+n-1
Run(agg, first, n) ==
    [i \in 1..n |-> Event(agg[1], agg[2], first + i - 1, "Created")]

Runs ==
    {Run(agg, first, n) : agg \in Aggregates, first \in 1..MaxEvents, n \in 1..MaxBatch}

\* a well-formed batch with one event changed: its reason emptied, its version
\* replaced, or (after the first event) its aggregate replaced
NoReason(b) ==
    {[b EXCEPT ![i].reason = ""] : i \in 1..Len(b)}

OtherVersion(b) ==
    {[b EXCEPT ![i].version = v] : i \in 1..Len(b), v \in Versions}

OtherAggregate(b) ==
    {[b EXCEPT ![i].aggregateType = agg[1], ![i].aggregateRootID = agg[2]] :
        i \in 2..Len(b), agg \in Aggregates}

Batches ==
    {<<>>} \cup Runs
    \cup UNION {NoReason(b) \cup OtherVersion(b) \cup OtherAggregate(b) : b \in Runs}

GetArgs == {<<agg[2], agg[1], v>> : agg \in Aggregates, v \in 0..MaxEvents}

GlobalGetArgs == (-1..(MaxEvents + 1)) \X (0..MaxEvents)

\* inputs of the concurrent specification
ConcBatches ==
    {<<>>} \cup
    {Run(agg, first, n) :
        agg \in {<<"a", "b_c">>, <<"global", "event_order">>},
        first \in 1..2, n \in 1..MaxBatch}

\* the batches of the specification with fairness: one event, and two events
LiveBatches == {Run(<<"a", "b_c">>, 1, 1), Run(<<"a", "b_c">>, 1, 2)}

ConcGetArgs == {<<"b_c", "a", 0>>}

ConcGlobalGetArgs == {<<1, MaxEvents>>}

-----------------------------------------------------------------------------
(* Keys, cursors and buckets *)

\* the 8-byte big endian representation of uint64(v), most significant byte first
itob(v) ==
    [i \in 1..8 |->
        IF i <= 4 THEN (IF v < 0 THEN 255 ELSE 0)
        ELSE (v \div (256 ^ (8 - i))) % 256]

\* bytes.Compare(a, b) < 0, the order of a bucket's keys
BytesLess(a, b) ==
    \E i \in 1..8 : a[i] < b[i] /\ \A j \in 1..(i - 1) : a[j] = b[j]

RECURSIVE Ascending(_)
Ascending(K) ==
    IF K = {} THEN <<>>
    ELSE LET m == CHOOSE k \in K : \A x \in K : ~BytesLess(x, k)
         IN <<m>> \o Ascending(K \ {m})

\* the keys cursor.Seek(key) and the cursor.Next() calls after it visit
Seek(bucket, key) ==
    Ascending({k \in DOMAIN bucket.kv : ~BytesLess(k, key)})

NoKey == <<>>

\* the key cursor.Last() returns
Last(bucket) ==
    IF DOMAIN bucket.kv = {} THEN NoKey
    ELSE CHOOSE k \in DOMAIN bucket.kv : \A x \in DOMAIN bucket.kv : ~BytesLess(k, x)

EmptyBucket == [sequence |-> 0, kv |-> <<>>]

\* a sequence that hands out the same number again
NextSequenceRepeats(bucket) == bucket

NextSequence(bucket) == [bucket EXCEPT !.sequence = @ + 1]

Put(bucket, key, value) ==
    [bucket EXCEPT !.kv =
        [k \in DOMAIN bucket.kv \cup {key} |-> IF k = key THEN value ELSE bucket.kv[k]]]

\* CreateBucketIfNotExists inside a transaction
createBucket(buckets, bucketName) ==
    IF bucketName \in DOMAIN buckets THEN buckets
    ELSE [n \in DOMAIN buckets \cup {bucketName} |->
            IF n = bucketName THEN EmptyBucket ELSE buckets[n]]

aggregateKey(aggregateType, aggregateID) == aggregateType \o "_" \o aggregateID

-----------------------------------------------------------------------------
(* The event serializer *)

SerializeEvent(event) ==
    <<event.aggregateType, event.aggregateRootID, event.version, event.reason>>

Decodable(value) == Len(value) = 4

DeserializeEvent(value) == Event(value[1], value[2], value[3], value[4])

-----------------------------------------------------------------------------
(* Batch validation *)

ErrNone == "nil"
ErrMultipleAggregates == "events holds events for more than one aggregate"
ErrMultipleTypes == "events holds events for more than one aggregate type"
ErrConcurrency == "concurrency error"
ErrNoReason == "event holds no reason"

RECURSIVE validateLoop(_, _, _, _, _)
validateLoop(aggregateID, aggregateType, currentVersion, events, i) ==
    IF i > Len(events) THEN ErrNone
    ELSE LET event == events[i]
         IN IF event.aggregateRootID # aggregateID THEN ErrMultipleAggregates
            ELSE IF event.aggregateType # aggregateType THEN ErrMultipleTypes
            ELSE IF currentVersion + 1 # event.version THEN ErrConcurrency
            ELSE IF event.reason = "" THEN ErrNoReason
            ELSE validateLoop(aggregateID, aggregateType, event.version, events, i + 1)

\* validateEvents with the first version taken from the batch itself
validateEventsAnyStart(aggregateID, currentVersion, events) ==
    validateLoop(aggregateID, events[1].aggregateType, events[1].version - 1, events, 1)

\* validateEvents with one of its checks left out after the first event
RECURSIVE validateLoopWithout(_, _, _, _, _, _)
validateLoopWithout(check, aggregateID, aggregateType, currentVersion, events, i) ==
    IF i > Len(events) THEN ErrNone
    ELSE LET event == events[i]
             checked(c) == i = 1 \/ c # check
         IN IF checked("id") /\ event.aggregateRootID # aggregateID
                THEN ErrMultipleAggregates
            ELSE IF checked("type") /\ event.aggregateType # aggregateType
                THEN ErrMultipleTypes
            ELSE IF checked("version") /\ currentVersion + 1 # event.version
                THEN ErrConcurrency
            ELSE IF checked("reason") /\ event.reason = "" THEN ErrNoReason
            ELSE validateLoopWithout(check, aggregateID, aggregateType, event.version,
                                     events, i + 1)

validateEventsReasonOfFirst(aggregateID, currentVersion, events) ==
    validateLoopWithout("reason", aggregateID, events[1].aggregateType, currentVersion,
                        events, 1)

validateEventsIDOfFirst(aggregateID, currentVersion, events) ==
    validateLoopWithout("id", aggregateID, events[1].aggregateType, currentVersion,
                        events, 1)

validateEventsVersionOfFirst(aggregateID, currentVersion, events) ==
    validateLoopWithout("version", aggregateID, events[1].aggregateType, currentVersion,
                        events, 1)

validateEvents(aggregateID, currentVersion, events) ==
    validateLoop(aggregateID, events[1].aggregateType, currentVersion, events, 1)

-----------------------------------------------------------------------------
(* Transactions *)

NoTx == <<>>

\* db.Begin: the buckets the new transaction sees are the committed ones
Begin(buckets) == buckets

\* tx.Commit: the transaction's buckets become the committed ones, or, when
\* the engine fails to write them, the transaction is rolled back
Commit(old, buckets, fail) ==
    IF fail THEN [err |-> "commit failed", db |-> old]
    ELSE [err |-> ErrNone, db |-> buckets]

\* a rollback that leaves the writes of the transaction in the file
RollbackKeepsWrites(old, buckets) == buckets

\* the deferred tx.Rollback of a transaction that was not committed
Rollback(old, buckets) == old

-----------------------------------------------------------------------------
(* Save *)

ErrDecode == "could not serialize event"
ErrNoGlobal == "global bucket not found"

\* Save from the bucket lookup to the validation: the bucket of the first
\* event is opened or created, the version of its last entry is read, and the
\* batch is validated against it
SaveOpen(buckets, events) ==
    LET aggregateType == events[1].aggregateType
        aggregateID == events[1].aggregateRootID
        bucketName == aggregateKey(aggregateType, aggregateID)
        opened == createBucket(buckets, bucketName)
        evBucket == opened[bucketName]
        k == Last(evBucket)
        err == IF k # NoKey /\ ~Decodable(evBucket.kv[k]) THEN ErrDecode
               ELSE LET currentVersion ==
                            IF k = NoKey THEN 0
                            ELSE DeserializeEvent(evBucket.kv[k]).version
                        invalid == validateEvents(aggregateID, currentVersion, events)
                    IN IF invalid # ErrNone THEN invalid
                       ELSE IF globalEventOrderBucketName \notin DOMAIN opened
                            THEN ErrNoGlobal
                       ELSE ErrNone
    IN [err |-> err, buckets |-> opened, bucketName |-> bucketName]

\* the steps of the loop body at which the engine or the serializer can fail
Failures == {"none", "sequence", "serialize", "put", "globalSequence", "globalPut"}

\* one turn of the loop of Save: the event is put under the next sequence of
\* its bucket, and again under the next sequence of the global bucket
SaveEvent(buckets, bucketName, event, fail) ==
    LET global == globalEventOrderBucketName
        b1 == [buckets EXCEPT ![bucketName] = NextSequence(@)]
        sequence == b1[bucketName].sequence
        value == SerializeEvent(event)
        b2 == [b1 EXCEPT ![bucketName] = Put(@, itob(sequence), value)]
        b3 == [b2 EXCEPT ![global] = NextSequence(@)]
        globalSequence == b3[global].sequence
        b4 == [b3 EXCEPT ![global] = Put(@, itob(globalSequence), value)]
    IN CASE fail = "sequence" -> [err |-> "could not get sequence", buckets |-> buckets]
         [] fail = "serialize" -> [err |-> "could not serialize event", buckets |-> b1]
         [] fail = "put" -> [err |-> "could not save event", buckets |-> b1]
         [] fail = "globalSequence" ->
                [err |-> "could not get next sequence for global bucket", buckets |-> b2]
         [] fail = "globalPut" ->
                [err |-> "could not save global sequence pointer", buckets |-> b3]
         [] OTHER -> [err |-> ErrNone, buckets |-> b4]

NoEvents == <<>>

Returned(err, events) == [err |-> err, events |-> events]

\* Save with the transaction begun before the length of the batch is looked at
SaveBeginEmptyInTx(p, events) ==
    /\ pc[p] = "idle"
    /\ call' = [call EXCEPT ![p] = [op |-> "Save", events |-> events, i |-> 1]]
    /\ writer = NoWriter
    /\ IF Len(events) = 0
       THEN /\ tx' = [tx EXCEPT ![p] = Begin(db)]
            /\ pc' = [pc EXCEPT ![p] = "commit"]
            /\ writer' = p
            /\ UNCHANGED <<db, result, committed>>
       ELSE LET o == SaveOpen(Begin(db), events)
            IN IF o.err # ErrNone
               THEN /\ db' = Rollback(db, o.buckets)
                    /\ result' = [result EXCEPT ![p] = Returned(o.err, NoEvents)]
                    /\ pc' = [pc EXCEPT ![p] = "done"]
                    /\ UNCHANGED <<writer, tx, committed>>
               ELSE /\ Len(committed) + Len(events) <= MaxEvents
                    /\ tx' = [tx EXCEPT ![p] = o.buckets]
                    /\ pc' = [pc EXCEPT ![p] = "write"]
                    /\ writer' = p
                    /\ UNCHANGED <<db, result, committed>>

\* Save is called: an empty batch returns at once; otherwise the read-write
\* transaction begins when no other is open, and a batch that fails the
\* validation is rolled back
SaveBegin(p, events) ==
    /\ pc[p] = "idle"
    /\ call' = [call EXCEPT ![p] = [op |-> "Save", events |-> events, i |-> 1]]
    /\ IF Len(events) = 0
       THEN /\ result' = [result EXCEPT ![p] = Returned(ErrNone, NoEvents)]
            /\ pc' = [pc EXCEPT ![p] = "done"]
            /\ UNCHANGED <<db, writer, tx, committed>>
       ELSE /\ writer = NoWriter
            /\ LET o == SaveOpen(Begin(db), events)
               IN IF o.err # ErrNone
                  THEN /\ db' = Rollback(db, o.buckets)
                       /\ result' = [result EXCEPT ![p] = Returned(o.err, NoEvents)]
                       /\ pc' = [pc EXCEPT ![p] = "done"]
                       /\ UNCHANGED <<writer, tx, committed>>
                  ELSE /\ Len(committed) + Len(events) <= MaxEvents
                       /\ tx' = [tx EXCEPT ![p] = o.buckets]
                       /\ pc' = [pc EXCEPT ![p] = "write"]
                       /\ writer' = p
                       /\ UNCHANGED <<db, result, committed>>

\* the loop of a Save that has no deferred Rollback: an error returns with the
\* transaction still open
SaveWriteLeavesTxOpen(p, fail) ==
    /\ pc[p] = "write"
    /\ LET events == call[p].events
           i == call[p].i
           bucketName == aggregateKey(events[1].aggregateType, events[1].aggregateRootID)
           r == SaveEvent(tx[p], bucketName, events[i], fail)
       IN IF r.err # ErrNone
          THEN /\ pc' = [pc EXCEPT ![p] = "done"]
               /\ result' = [result EXCEPT ![p] = Returned(r.err, NoEvents)]
               /\ UNCHANGED <<db, tx, writer, call, committed>>
          ELSE /\ tx' = [tx EXCEPT ![p] = r.buckets]
               /\ call' = [call EXCEPT ![p].i = i + 1]
               /\ pc' = [pc EXCEPT ![p] = IF i = Len(events) THEN "commit" ELSE "write"]
               /\ UNCHANGED <<db, writer, result, committed>>

\* one turn of the loop
SaveWrite(p, fail) ==
    /\ pc[p] = "write"
    /\ LET events == call[p].events
           i == call[p].i
           bucketName == aggregateKey(events[1].aggregateType, events[1].aggregateRootID)
           r == SaveEvent(tx[p], bucketName, events[i], fail)
       IN IF r.err # ErrNone
          THEN /\ db' = Rollback(db, r.buckets)
               /\ tx' = [tx EXCEPT ![p] = NoTx]
               /\ writer' = NoWriter
               /\ pc' = [pc EXCEPT ![p] = "done"]
               /\ result' = [result EXCEPT ![p] = Returned(r.err, NoEvents)]
               /\ UNCHANGED <<call, committed>>
          ELSE /\ tx' = [tx EXCEPT ![p] = r.buckets]
               /\ call' = [call EXCEPT ![p].i = i + 1]
               /\ pc' = [pc EXCEPT ![p] = IF i = Len(events) THEN "commit" ELSE "write"]
               /\ UNCHANGED <<db, writer, result, committed>>

\* tx.Commit and the return of Save
SaveCommit(p, fail) ==
    /\ pc[p] = "commit"
    /\ LET c == Commit(db, tx[p], fail)
       IN /\ db' = c.db
          /\ result' = [result EXCEPT ![p] = Returned(c.err, NoEvents)]
          /\ committed' = IF c.err = ErrNone THEN committed \o call[p].events
                          ELSE committed
    /\ tx' = [tx EXCEPT ![p] = NoTx]
    /\ writer' = NoWriter
    /\ pc' = [pc EXCEPT ![p] = "done"]
    /\ UNCHANGED call

-----------------------------------------------------------------------------
(* Get *)

ErrNilBucket == "panic: nil pointer dereference"
ErrDeserialize == "Could not deserialize event"

\* the cursor loop of Get over the bucket, from the key of firstEvent; a
\* bucket the transaction does not hold is a nil *Bucket, and its Cursor()
\* dereferences it
GetLoop(buckets, bucketName, firstEvent) ==
    IF bucketName \notin DOMAIN buckets
    THEN Returned(ErrNilBucket, NoEvents)
    ELSE LET evBucket == buckets[bucketName]
             keys == Seek(evBucket, itob(firstEvent))
         IN IF \E i \in 1..Len(keys) : ~Decodable(evBucket.kv[keys[i]])
            THEN Returned(ErrDeserialize, NoEvents)
            ELSE Returned(ErrNone,
                    [i \in 1..Len(keys) |-> DeserializeEvent(evBucket.kv[keys[i]])])

\* Get with the scan starting at the key of afterVersion
GetReadFromAfterVersion(buckets, id, aggregateType, afterVersion) ==
    GetLoop(buckets, aggregateKey(aggregateType, id), afterVersion)

\* Get after its transaction began: the scan of the aggregate's bucket from
\* the key of afterVersion + 1
GetRead(buckets, id, aggregateType, afterVersion) ==
    GetLoop(buckets, aggregateKey(aggregateType, id), afterVersion + 1)

GetBegin(p, id, aggregateType, afterVersion) ==
    /\ pc[p] = "idle"
    /\ call' = [call EXCEPT ![p] = [op |-> "Get", id |-> id,
                    aggregateType |-> aggregateType, afterVersion |-> afterVersion]]
    /\ tx' = [tx EXCEPT ![p] = Begin(db)]
    /\ pc' = [pc EXCEPT ![p] = "get"]
    /\ UNCHANGED <<db, writer, result, committed>>

GetScan(p) ==
    /\ pc[p] = "get"
    /\ result' = [result EXCEPT ![p] =
            GetRead(tx[p], call[p].id, call[p].aggregateType, call[p].afterVersion)]
    /\ tx' = [tx EXCEPT ![p] = NoTx]
    /\ pc' = [pc EXCEPT ![p] = "done"]
    /\ UNCHANGED <<db, writer, call, committed>>

-----------------------------------------------------------------------------
(* GlobalGet *)

\* the loop of GlobalGet over the keys the cursor visits; the counter of the
\* code is the number of events gathered so far
RECURSIVE globalGetLoop(_, _, _, _, _)
globalGetLoop(evBucket, keys, i, events, count) ==
    IF i > Len(keys) THEN events
    ELSE IF ~Decodable(evBucket.kv[keys[i]]) THEN NoEvents
    ELSE LET gathered == Append(events, DeserializeEvent(evBucket.kv[keys[i]]))
         IN IF Len(gathered) >= count THEN gathered
            ELSE globalGetLoop(evBucket, keys, i + 1, gathered, count)

GlobalGetRead(buckets, start, count) ==
    IF globalEventOrderBucketName \notin DOMAIN buckets
    THEN Returned(ErrNilBucket, NoEvents)
    ELSE LET evBucket == buckets[globalEventOrderBucketName]
         IN Returned(ErrNone,
                globalGetLoop(evBucket, Seek(evBucket, itob(start)), 1, NoEvents, count))

GlobalGetBegin(p, start, count) ==
    /\ pc[p] = "idle"
    /\ call' = [call EXCEPT ![p] = [op |-> "GlobalGet", start |-> start, count |-> count]]
    /\ tx' = [tx EXCEPT ![p] = Begin(db)]
    /\ pc' = [pc EXCEPT ![p] = "globalget"]
    /\ UNCHANGED <<db, writer, result, committed>>

GlobalGetScan(p) ==
    /\ pc[p] = "globalget"
    /\ result' = [result EXCEPT ![p] = GlobalGetRead(tx[p], call[p].start, call[p].count)]
    /\ tx' = [tx EXCEPT ![p] = NoTx]
    /\ pc' = [pc EXCEPT ![p] = "done"]
    /\ UNCHANGED <<db, writer, call, committed>>

-----------------------------------------------------------------------------
(* Return to the caller *)

NoCall == [op |-> "none"]
NoResult == Returned("none", NoEvents)

\* the caller takes the result and is free to make its next call
Return(p) ==
    /\ pc[p] = "done"
    /\ pc' = [pc EXCEPT ![p] = "idle"]
    /\ call' = [call EXCEPT ![p] = NoCall]
    /\ result' = [result EXCEPT ![p] = NoResult]
    /\ UNCHANGED <<db, writer, tx, committed>>

-----------------------------------------------------------------------------
(* Specifications *)

\* MustOpenBBolt: the file holds the global bucket and nothing else
Init ==
    /\ db = [n \in {globalEventOrderBucketName} |-> EmptyBucket]
    /\ writer = NoWriter
    /\ pc = [p \in Procs |-> "idle"]
    /\ call = [p \in Procs |-> NoCall]
    /\ tx = [p \in Procs |-> NoTx]
    /\ result = [p \in Procs |-> NoResult]
    /\ committed = <<>>

\* one caller, every batch and every argument
Next ==
    \E p \in Callers :
        \/ \E events \in Batches : SaveBegin(p, events)
        \/ \E fail \in Failures : SaveWrite(p, fail)
        \/ \E fail \in BOOLEAN : SaveCommit(p, fail)
        \/ \E a \in GetArgs : GetBegin(p, a[1], a[2], a[3])
        \/ GetScan(p)
        \/ \E a \in GlobalGetArgs : GlobalGetBegin(p, a[1], a[2])
        \/ GlobalGetScan(p)
        \/ Return(p)

Spec == Init /\ [][Next]_vars

\* concurrent callers
NextConc ==
    \E p \in Procs :
        \/ \E events \in ConcBatches : SaveBegin(p, events)
        \/ \E fail \in Failures : SaveWrite(p, fail)
        \/ \E fail \in BOOLEAN : SaveCommit(p, fail)
        \/ \E a \in ConcGetArgs : GetBegin(p, a[1], a[2], a[3])
        \/ GetScan(p)
        \/ \E a \in ConcGlobalGetArgs : GlobalGetBegin(p, a[1], a[2])
        \/ GlobalGetScan(p)
        \/ Return(p)

SpecConc == Init /\ [][NextConc]_vars

\* concurrent callers, each of which keeps running once it is inside a call:
\* the loop of Save, its commit and the scans of Get and GlobalGet are taken
Running(p) ==
    \/ \E fail \in Failures : SaveWrite(p, fail)
    \/ \E fail \in BOOLEAN : SaveCommit(p, fail)
    \/ GetScan(p)
    \/ GlobalGetScan(p)

NextLive ==
    \E p \in Procs :
        \/ \E events \in LiveBatches : SaveBegin(p, events)
        \/ \E fail \in Failures : SaveWrite(p, fail)
        \/ \E fail \in BOOLEAN : SaveCommit(p, fail)
        \/ \E a \in ConcGetArgs : GetBegin(p, a[1], a[2], a[3])
        \/ GetScan(p)
        \/ \E a \in ConcGlobalGetArgs : GlobalGetBegin(p, a[1], a[2])
        \/ GlobalGetScan(p)
        \/ Return(p)

SpecLive == Init /\ [][NextLive]_vars /\ \A p \in Procs : WF_vars(Running(p))

-----------------------------------------------------------------------------
(* What the properties speak about *)

\* the bucket a batch is saved to
BucketOf(events) == aggregateKey(events[1].aggregateType, events[1].aggregateRootID)

\* the sequence number a key stands for
btoi(k) == k[5] * 16777216 + k[6] * 65536 + k[7] * 256 + k[8]

HasNoStoredEvents(buckets, bucketName) ==
    bucketName \notin DOMAIN buckets \/ DOMAIN buckets[bucketName].kv = {}

\* the version of the entry stored under the highest sequence number, 0 when
\* nothing is stored
LastStoredVersion(buckets, bucketName) ==
    IF HasNoStoredEvents(buckets, bucketName) THEN 0
    ELSE LET kv == buckets[bucketName].kv
             k == CHOOSE x \in DOMAIN kv : \A y \in DOMAIN kv : btoi(y) <= btoi(x)
         IN DeserializeEvent(kv[k]).version

\* caller p makes a Save call in this step
CallsSave(p) == pc[p] = "idle" /\ call'[p].op = "Save"

\* the call of p returns an error in this step and nothing else changes
Rejected(p) ==
    /\ pc'[p] = "done"
    /\ result'[p].err # ErrNone
    /\ db' = db
    /\ writer' = writer
    /\ tx' = tx
    /\ committed' = committed

-----------------------------------------------------------------------------
(* C1 *)

\* C1: when Save commits a batch B for an aggregate whose stream held no
\* events, Get(id, type, 0) on the committed buckets returns exactly B, with
\* versions 1..Len(B).
C1_GetAfterFirstSave ==
    [][\A p \in Procs :
        (/\ pc[p] = "commit"
         /\ pc'[p] = "done"
         /\ result'[p].err = ErrNone
         /\ HasNoStoredEvents(db, BucketOf(call[p].events)))
        => LET B == call[p].events
           IN /\ GetRead(Begin(db'), B[1].aggregateRootID, B[1].aggregateType, 0)
                    = Returned(ErrNone, B)
              /\ \A i \in 1..Len(B) : B[i].version = i]_vars

-----------------------------------------------------------------------------
(* C2 *)

-----------------------------------------------------------------------------
(* C3 *)

\* C3: a GlobalGet(1, E) that returns when the successful Save calls have
\* written E events returns exactly those events in commit order.
C3_GlobalGetCommitOrder ==
    \A p \in Procs :
        (/\ pc[p] = "done"
         /\ call[p].op = "GlobalGet"
         /\ call[p].start = 1
         /\ call[p].count = Len(committed))
        => result[p] = Returned(ErrNone, committed)

-----------------------------------------------------------------------------
(* C4 *)

Reading(q) == pc[q] \in {"get", "globalget"}

NewKeys(old, new, bucketName) ==
    DOMAIN new[bucketName].kv
        \ (IF bucketName \in DOMAIN old THEN DOMAIN old[bucketName].kv ELSE {})

\* every event of batch B is a new entry of its bucket and of the global bucket
HoldsBatch(old, new, B) ==
    \A i \in 1..Len(B) :
        /\ \E k \in NewKeys(old, new, BucketOf(B)) :
                new[BucketOf(B)].kv[k] = SerializeEvent(B[i])
        /\ \E k \in NewKeys(old, new, globalEventOrderBucketName) :
                new[globalEventOrderBucketName].kv[k] = SerializeEvent(B[i])

\* C4: a Save that returns an error, also after some of its events were put
\* inside its transaction, leaves the committed buckets as they were; the
\* committed buckets change only by the commit of a whole batch; and a Get or
\* GlobalGet reads the buckets that were committed when its transaction began,
\* whatever a concurrent Save does meanwhile.
C4_AllOrNothing ==
    [][/\ \A p \in Procs :
            (/\ call'[p].op = "Save"
             /\ pc[p] # "done"
             /\ pc'[p] = "done"
             /\ result'[p].err # ErrNone)
            => (db' = db /\ committed' = committed)
       /\ db' # db
            => \E p \in Procs :
                /\ pc[p] = "commit"
                /\ pc'[p] = "done"
                /\ result'[p].err = ErrNone
                /\ HoldsBatch(db, db', call[p].events)
       /\ \A q \in Procs :
            /\ (pc[q] = "idle" /\ Reading(q)') => tx'[q] = db
            /\ (Reading(q) /\ Reading(q)') => tx'[q] = tx[q]
            /\ (pc[q] = "get" /\ pc'[q] = "done")
                => result'[q] = GetRead(tx[q], call[q].id, call[q].aggregateType,
                                        call[q].afterVersion)
            /\ (pc[q] = "globalget" /\ pc'[q] = "done")
                => result'[q] = GlobalGetRead(tx[q], call[q].start, call[q].count)]_vars

\* a Save failed after it had put an event, while another caller was reading
C4_Witness ==
    \E p, q \in Procs :
        /\ pc[p] = "done"
        /\ call[p].op = "Save"
        /\ call[p].i >= 2
        /\ result[p].err # ErrNone
        /\ Reading(q)
        /\ committed # <<>>

-----------------------------------------------------------------------------
(* C5 *)

\* C5: a GlobalGet(start, count) with count >= 0 returns at most count
\* events, each of them stored under a global sequence number >= start.
C5_GlobalGetBounded ==
    \A p \in Procs :
        (/\ pc[p] = "done"
         /\ call[p].op = "GlobalGet"
         /\ call[p].count >= 0)
        => /\ Len(result[p].events) <= call[p].count
           /\ \A i \in 1..Len(result[p].events) :
                \E k \in DOMAIN db[globalEventOrderBucketName].kv :
                    /\ btoi(k) >= call[p].start
                    /\ DeserializeEvent(db[globalEventOrderBucketName].kv[k])
                            = result[p].events[i]

-----------------------------------------------------------------------------
(* C6 *)

\* the bucket holds one event of each version 1..n under its n keys
HoldsVersions(buckets, bucketName) ==
    /\ ~HasNoStoredEvents(buckets, bucketName)
    /\ LET kv == buckets[bucketName].kv
       IN \A v \in 1..Cardinality(DOMAIN kv) :
            Cardinality({k \in DOMAIN kv : DeserializeEvent(kv[k]).version = v}) = 1

\* the stored events with a version above afterVersion, by ascending version
EventsAfter(buckets, bucketName, afterVersion) ==
    LET kv == buckets[bucketName].kv
        n == Cardinality(DOMAIN kv)
    IN [i \in 1..(IF afterVersion >= n THEN 0 ELSE n - afterVersion) |->
            DeserializeEvent(
                kv[CHOOSE k \in DOMAIN kv :
                        DeserializeEvent(kv[k]).version = afterVersion + i])]

-----------------------------------------------------------------------------
(* C7 *)

\* C7: a Save of a batch with an empty reason at any position returns an
\* error and writes nothing.
C7_EmptyReasonRejected ==
    [][\A p \in Procs :
        (/\ CallsSave(p)
         /\ \E i \in 1..Len(call'[p].events) : call'[p].events[i].reason = "")
        => Rejected(p)]_vars

\* a batch whose second event alone has no reason was rejected for it
C7_Witness ==
    \E p \in Procs :
        /\ pc[p] = "done"
        /\ call[p].op = "Save"
        /\ Len(call[p].events) = 2
        /\ call[p].events[1].reason # ""
        /\ call[p].events[2].reason = ""
        /\ result[p].err = ErrNoReason

-----------------------------------------------------------------------------
(* C8 *)

MixedAggregates(events) ==
    \E i, j \in 1..Len(events) :
        \/ events[i].aggregateRootID # events[j].aggregateRootID
        \/ events[i].aggregateType # events[j].aggregateType

\* C8: a Save of a batch with events of two aggregate ids or two aggregate
\* types returns an error and writes nothing: no bucket is created, no entry
\* is put and no sequence advances.
C8_MixedBatchRejected ==
    [][\A p \in Procs :
        (CallsSave(p) /\ MixedAggregates(call'[p].events)) => Rejected(p)]_vars

\* a batch of two aggregate ids was rejected for it, with events in the store
C8_Witness ==
    \E p \in Procs :
        /\ pc[p] = "done"
        /\ call[p].op = "Save"
        /\ MixedAggregates(call[p].events)
        /\ result[p].err = ErrMultipleAggregates
        /\ committed # <<>>

-----------------------------------------------------------------------------
(* C9 *)

\* C9: a Get for an aggregate whose bucket does not exist returns the empty
\* sequence and no error.
C9_GetOfMissingStream ==
    \A p \in Procs :
        (/\ pc[p] = "done"
         /\ call[p].op = "Get"
         /\ aggregateKey(call[p].aggregateType, call[p].id) \notin DOMAIN db)
        => result[p] = Returned(ErrNone, NoEvents)

-----------------------------------------------------------------------------
(* C10 *)

\* C10: the commit of a batch of n events adds to the global bucket exactly
\* the n entries under the next n global sequence numbers, holding the events
\* of the batch in batch order.
C10_BatchIsContiguousRun ==
    [][\A p \in Procs :
        (pc[p] = "commit" /\ pc'[p] = "done" /\ result'[p].err = ErrNone)
        => LET B == call[p].events
               old == db[globalEventOrderBucketName].kv
               new == db'[globalEventOrderBucketName].kv
               s == Cardinality(DOMAIN old)
           IN /\ DOMAIN new = DOMAIN old \cup {itob(s + i) : i \in 1..Len(B)}
              /\ \A i \in 1..Len(B) : new[itob(s + i)] = SerializeEvent(B[i])
              /\ \A k \in DOMAIN old : new[k] = old[k]]_vars

-----------------------------------------------------------------------------
(* C11 *)

\* the last events of the commit order are the batch B
LastCommitted(B) ==
    /\ Len(committed) >= Len(B)
    /\ SubSeq(committed, Len(committed) - Len(B) + 1, Len(committed)) = B

\* the events Get(id, type, 0) reads for the aggregate of batch B
StreamOf(buckets, B) ==
    GetRead(Begin(buckets), B[1].aggregateRootID, B[1].aggregateType, 0).events

\* C11: of two callers that save a batch of the same aggregate starting at the
\* same version, the one whose transaction begins after the other's commit
\* fails with the concurrency error and changes nothing, and the stream then
\* ends with the winner's batch and holds each version 1..n once.
C11_OneWinner ==
    [][\A p, q \in Procs :
        (/\ p # q
         /\ pc[p] = "done"
         /\ call[p].op = "Save"
         /\ call[p].events # <<>>
         /\ result[p].err = ErrNone
         /\ LastCommitted(call[p].events)
         /\ CallsSave(q)
         /\ call'[q].events # <<>>
         /\ BucketOf(call'[q].events) = BucketOf(call[p].events)
         /\ call'[q].events[1].version = call[p].events[1].version)
        => /\ Rejected(q)
           /\ result'[q].err = ErrConcurrency
           /\ LET B == call[p].events
                  S == StreamOf(db', B)
              IN /\ Len(S) = B[Len(B)].version
                 /\ \A i \in 1..Len(S) : S[i].version = i
                 /\ SubSeq(S, Len(S) - Len(B) + 1, Len(S)) = B]_vars

-----------------------------------------------------------------------------
(* C12 *)

\* C12: a Save of the empty batch returns nil in the step it is called, also
\* while another caller holds the read-write transaction, and begins no
\* transaction, creates no bucket, puts no entry and advances no sequence.
C12_EmptyBatchIsNoOp ==
    [][\A p \in Procs :
        (CallsSave(p) /\ call'[p].events = <<>>)
        => /\ pc'[p] = "done"
           /\ result'[p] = Returned(ErrNone, NoEvents)
           /\ db' = db
           /\ writer' = writer
           /\ tx' = tx
           /\ committed' = committed]_vars

\* a Save of the empty batch returned while the other caller was inside its
\* read-write transaction, with events in the store
C12_Witness ==
    \E p, q \in Procs :
        /\ pc[p] = "done"
        /\ call[p].op = "Save"
        /\ call[p].events = <<>>
        /\ result[p].err = ErrNone
        /\ writer = q
        /\ q # p
        /\ committed # <<>>

-----------------------------------------------------------------------------
(* C13 *)

\* the buckets of the aggregates that have a committed event
AggregateBuckets ==
    {aggregateKey(committed[i].aggregateType, committed[i].aggregateRootID) :
        i \in 1..Len(committed)}

\* C13: in every state, each bucket of an aggregate holds the keys 1..n for
\* some n >= 0, and the event under key k has version k.
C13_KeysAreVersions ==
    \A bucketName \in AggregateBuckets :
        /\ bucketName \in DOMAIN db
        /\ LET kv == db[bucketName].kv
           IN /\ DOMAIN kv = {itob(k) : k \in 1..Cardinality(DOMAIN kv)}
              /\ \A k \in 1..Cardinality(DOMAIN kv) :
                    /\ Decodable(kv[itob(k)])
                    /\ DeserializeEvent(kv[itob(k)]).version = k

-----------------------------------------------------------------------------
(* C14 *)

\* the (type, id) pair of an event
AggregateOf(event) == <<event.aggregateType, event.aggregateRootID>>

\* C14: the bucket names Save derived for the committed events are distinct
\* for distinct (type, id) pairs and are never the name of the global bucket,
\* and every event stored in the bucket of an aggregate carries that
\* aggregate's (type, id) pair.
C14_AggregateKeyInjective ==
    \A i \in 1..Len(committed) :
        LET bucketName == BucketOf(<<committed[i]>>)
        IN /\ bucketName # globalEventOrderBucketName
           /\ \A j \in 1..Len(committed) :
                BucketOf(<<committed[j]>>) = bucketName
                    => AggregateOf(committed[j]) = AggregateOf(committed[i])
           /\ bucketName \in DOMAIN db
           /\ \A k \in DOMAIN db[bucketName].kv :
                AggregateOf(DeserializeEvent(db[bucketName].kv[k]))
                    = AggregateOf(committed[i])

-----------------------------------------------------------------------------
(* C15 *)

\* the events of a bucket by ascending key
EventsOf(bucket) ==
    LET keys == Ascending(DOMAIN bucket.kv)
    IN [i \in 1..Len(keys) |-> DeserializeEvent(bucket.kv[keys[i]])]

\* the number of entries of the buckets named in S
RECURSIVE StoredIn(_, _)
StoredIn(buckets, S) ==
    IF S = {} THEN 0
    ELSE LET n == CHOOSE x \in S : TRUE
         IN Cardinality(DOMAIN buckets[n].kv) + StoredIn(buckets, S \ {n})

\* C15: in every state the global bucket holds the keys 1..E, E the number of
\* events stored in the buckets of the aggregates; its events are those
\* events; and its events of one aggregate, by ascending global key, are the
\* stream Get returns for that aggregate.
C15_GlobalLogIsMerge ==
    LET global == db[globalEventOrderBucketName]
        E == StoredIn(db, AggregateBuckets)
    IN /\ DOMAIN global.kv = {itob(k) : k \in 1..E}
       /\ {global.kv[k] : k \in DOMAIN global.kv}
            = UNION {{db[n].kv[k] : k \in DOMAIN db[n].kv} : n \in AggregateBuckets}
       /\ \A i \in 1..Len(committed) :
            LET IsOfAggregate(event) == AggregateOf(event) = AggregateOf(committed[i])
            IN SelectSeq(EventsOf(global), IsOfAggregate)
                    = StreamOf(db, <<committed[i]>>)

-----------------------------------------------------------------------------
(* C16 *)

\* the sequence counter of a bucket, 0 for a bucket that does not exist
Counter(buckets, bucketName) ==
    IF bucketName \in DOMAIN buckets THEN buckets[bucketName].sequence ELSE 0

\* caller p's Save call ends in this step
SaveEnds(p) == call'[p].op = "Save" /\ pc[p] # "done" /\ pc'[p] = "done"

\* C16: a Save that returns nil for a batch of n events has advanced the
\* sequence counter of the aggregate's bucket by n and that of the global
\* bucket by n and no other counter; a Save that returns an error has
\* advanced no counter.
C16_CountersAdvanceByBatch ==
    [][\A p \in Procs :
        SaveEnds(p)
        => LET B == call'[p].events
               global == globalEventOrderBucketName
           IN IF result'[p].err = ErrNone /\ B # <<>>
              THEN /\ Counter(db', BucketOf(B)) = Counter(db, BucketOf(B)) + Len(B)
                   /\ Counter(db', global) = Counter(db, global) + Len(B)
                   /\ \A n \in (DOMAIN db \cup DOMAIN db') \ {BucketOf(B), global} :
                        Counter(db', n) = Counter(db, n)
              ELSE \A n \in DOMAIN db \cup DOMAIN db' :
                        Counter(db', n) = Counter(db, n)]_vars

-----------------------------------------------------------------------------
(* C17 *)

\* C17: every step keeps every committed bucket and, in it, every committed
\* entry: no key of a bucket is removed and no key gets another value.
C17_AppendOnly ==
    [][\A bucketName \in DOMAIN db :
        /\ bucketName \in DOMAIN db'
        /\ \A k \in DOMAIN db[bucketName].kv :
            /\ k \in DOMAIN db'[bucketName].kv
            /\ db'[bucketName].kv[k] = db[bucketName].kv[k]]_vars

\* a Save committed a batch to a bucket that held entries of an earlier Save
C17_Witness ==
    \E p \in Procs :
        /\ pc[p] = "done"
        /\ call[p].op = "Save"
        /\ call[p].events # <<>>
        /\ result[p].err = ErrNone
        /\ BucketOf(call[p].events) # globalEventOrderBucketName
        /\ Cardinality(DOMAIN db[BucketOf(call[p].events)].kv) > Len(call[p].events)

-----------------------------------------------------------------------------
(* C18 *)

AggregateIDs == {agg[2] : agg \in Aggregates}

\* every event of the batch is of the aggregate, of the type of the first
\* event, has a reason, and has the version that follows its predecessor's
Accepts(aggregateID, currentVersion, events) ==
    \A i \in 1..Len(events) :
        /\ events[i].aggregateRootID = aggregateID
        /\ events[i].aggregateType = events[1].aggregateType
        /\ events[i].reason # ""
        /\ events[i].version = currentVersion + i

ValidationErrors == {ErrMultipleAggregates, ErrMultipleTypes, ErrConcurrency, ErrNoReason}

\* C18: for the batch of every Save call, validateEvents returns nil for an
\* aggregate id and a current version exactly when every event has that id,
\* the type of the first event, a reason, and the version currentVersion + i;
\* a batch it refuses against the stored version leaves the call rejected
\* with one of its errors and nothing changed, and a batch it accepts is
\* written.
C18_ValidatorAcceptsExactly ==
    [][\A p \in Procs :
        (CallsSave(p) /\ call'[p].events # <<>>)
        => LET events == call'[p].events
               aggregateID == events[1].aggregateRootID
               stored == LastStoredVersion(db, BucketOf(events))
           IN /\ \A id \in AggregateIDs, currentVersion \in 0..MaxEvents :
                    (validateEvents(id, currentVersion, events) = ErrNone)
                        <=> Accepts(id, currentVersion, events)
              /\ IF Accepts(aggregateID, stored, events)
                 THEN pc'[p] = "write" /\ db' = db
                 ELSE Rejected(p) /\ result'[p].err \in ValidationErrors]_vars

\* a batch with the right first version and a repeated or descending second
\* version was refused on a stream that holds events
C18_Witness ==
    \E p \in Procs :
        /\ pc[p] = "done"
        /\ call[p].op = "Save"
        /\ Len(call[p].events) = 2
        /\ ~HasNoStoredEvents(db, BucketOf(call[p].events))
        /\ call[p].events[1].version = LastStoredVersion(db, BucketOf(call[p].events)) + 1
        /\ call[p].events[2].version <= call[p].events[1].version
        /\ call[p].events[2].aggregateRootID = call[p].events[1].aggregateRootID
        /\ call[p].events[2].aggregateType = call[p].events[1].aggregateType
        /\ result[p].err = ErrConcurrency

-----------------------------------------------------------------------------
(* C19 *)

\* the pages GlobalGet(start, count), GlobalGet(start + count, count), ...
\* up to the first page of fewer than count events, one after the other
RECURSIVE Paging(_, _, _)
Paging(buckets, start, count) ==
    LET page == GlobalGetRead(Begin(buckets), start, count).events
    IN IF Len(page) < count THEN page
       ELSE page \o Paging(buckets, start + count, count)

\* C19: when a GlobalGet(start, count) with count >= 1 has returned on a store
\* of E committed events, it returned no event if start > E, and if start = 1
\* it returned the first page of a paging that yields the E committed events
\* in commit order, each once.
C19_PagingReplaysHistory ==
    \A p \in Procs :
        (/\ pc[p] = "done"
         /\ call[p].op = "GlobalGet"
         /\ call[p].count >= 1)
        => /\ call[p].start > Len(committed) => result[p].events = NoEvents
           /\ call[p].start = 1
                => /\ result[p].events
                        = GlobalGetRead(Begin(db), 1, call[p].count).events
                   /\ Paging(db, 1, call[p].count) = committed

-----------------------------------------------------------------------------
(* C20 *)

\* caller p is inside a call that has begun its transaction
InTransaction(p) == pc[p] \in {"write", "commit", "get", "globalget"}

====
